---- MODULE Spec2Model ----
(***************************************************************************)
(* A model of gemini.py: the function generate_text (lines 4-24), stepped  *)
(* one source line at a time, the __main__ block that calls it once        *)
(* (lines 26-31), and the generative-text provider it talks to.            *)
(*                                                                         *)
(* pc holds the source line about to be executed ("L15" is line 15).       *)
(* Spec is one run of the script.  SpecRepeat is generate_text imported    *)
(* and called several times in one interpreter with the same prompt        *)
(* against the same deterministic provider.                                *)
(***************************************************************************)
EXTENDS Naturals, Sequences, FiniteSets

VARIABLES
    pc,             \* the line about to run; "done" / "escaped" at the end
    user_prompt,    \* line 27: what input() returned
    generated_text, \* line 28: what generate_text returned to __main__
    prompt,         \* generate_text's parameter
    api_key,        \* generate_text's local, line 15
    model,          \* generate_text's local, line 19
    response,       \* generate_text's local, line 20
    exc,            \* the exception raised inside the try block (e of line 22)
    configured,     \* the SDK's process-wide credential, set by genai.configure
    provider,       \* how the provider behaves in this run (fixed by Init)
    providerLog,    \* every call made into the SDK, in order, with its argument
    stdout,         \* everything written to standard output, in order
    invocations,    \* how many times generate_text has been entered
    ret_to,         \* where generate_text returns to: "main" or "test"
    results,        \* SpecRepeat: what each finished call returned
    marks           \* SpecRepeat: Len(stdout) when each call was entered

vars ==
    <<pc, user_prompt, generated_text, prompt, api_key, model, response, exc,
      configured, provider, providerLog, stdout, invocations, ret_to,
      results, marks>>

(***************************************************************************)
(* Python values: None and str, and the conversions the script applies.    *)
(***************************************************************************)
None == [tag |-> "None", val |-> ""]

Str(s) == [tag |-> "str", val |-> s]

\* The truth test of `if not api_key` (line 16) and `if generated_text`
\* (line 29): None and the empty string are false.
Truthy(v) == v.tag = "str" /\ v.val # ""

\* str(v), which print applies to its argument.
PyStr(v) == IF v.tag = "None" THEN "None" ELSE v.val

\* print(s): the text and a newline, appended to standard output.
print(out, s) == Append(out, s \o "\n")

(***************************************************************************)
(* Literals of the source.                                                 *)
(***************************************************************************)
\* line 15 (the inline credential, shortened here)
API_KEY_LITERAL == "AIzaSy-inline-literal"

\* line 19
MODEL_NAME == "gemini-2.0-flash"

\* line 17
KEY_NOT_SET == "GOOGLE_API_KEY environment variable not set."

\* line 27
INPUT_PROMPT == "Enter your prompt: "

\* line 30
HEADER == "Generated Text:"

\* line 23: f"An error occurred: {e}"
Diagnostic(e) == "An error occurred: " \o e.msg

(***************************************************************************)
(* Exceptions.  A raised exception is [kind, msg]; NoExc is "none raised". *)
(***************************************************************************)
NoExc == [kind |-> "", msg |-> ""]

\* The exception classes in play that derive from Exception.
ExceptionClasses == {"ValueError", "PermissionDenied", "ServiceUnavailable"}

\* `except ValueError`: a handler that catches only one class.
IsValueError(kind) == kind = "ValueError"

\* `except Exception` (line 22): does the handler catch an exception of this class?
IsException(kind) == kind \in ExceptionClasses

(***************************************************************************)
(* The inputs: the prompts typed, and the provider's behaviour.            *)
(***************************************************************************)
Prompts == {"", "Say hello", " hi "}

Texts == {"", "Hello!", "Say hello"}

\* What the SDK raises when the provider interaction fails.
ProviderFaults ==
    { [kind |-> "PermissionDenied", msg |-> "403 API key not valid"],
      [kind |-> "ServiceUnavailable", msg |-> "503 failed to connect"],
      [kind |-> "ValueError", msg |-> "response has no valid part"] }

\* The four SDK interactions of lines 18-21, in order.
ProviderSteps == <<"configure", "GenerativeModel", "generate_content", "text">>

\* A provider either answers with a text or fails at one of the four steps.
Providers ==
    { [failAt |-> "none", fault |-> NoExc, text |-> t] : t \in Texts }
    \cup
    { [failAt |-> ProviderSteps[i], fault |-> f, text |-> ""] :
          i \in 1..Len(ProviderSteps), f \in ProviderFaults }

\* How many calls SpecRepeat makes.
MaxCalls == 2

(***************************************************************************)
(* generate_text, lines 4-24.                                              *)
(***************************************************************************)
\* A call into the SDK at one of the four steps: does this provider raise?
Fails(step) == provider.failAt = step

\* The record the SDK call leaves in providerLog: the operation and the
\* value passed to it.
Logged(op, arg) == Append(providerLog, [op |-> op, arg |-> arg])

\* `return v`: the value goes to the caller and control with it.
Return(v) ==
    IF ret_to = "main"
        THEN /\ generated_text' = v
             /\ pc' = "L29"
             /\ UNCHANGED results
        ELSE /\ results' = Append(results, v)
             /\ pc' = "T"
             /\ UNCHANGED generated_text

\* Entering generate_text(p): fresh locals, nothing raised yet.
Enter(p) ==
    /\ prompt' = p
    /\ api_key' = None
    /\ model' = None
    /\ response' = None
    /\ exc' = NoExc
    /\ invocations' = invocations + 1
    /\ pc' = "L15"

\* api_key = os.environ.get("GOOGLE_API_KEY"): the credential from outside,
\* which may be empty or absent.
AssignKeyFromEnv ==
    /\ pc = "L15"
    /\ \E k \in {Str(API_KEY_LITERAL), Str(""), None} : api_key' = k
    /\ pc' = "L16"
    /\ UNCHANGED <<user_prompt, generated_text, prompt, model, response, exc,
                   configured, provider, providerLog, stdout, invocations,
                   ret_to, results, marks>>

\* line 15: api_key = "<literal>"
AssignKey ==
    /\ pc = "L15"
    /\ api_key' = Str(API_KEY_LITERAL)
    /\ pc' = "L16"
    /\ UNCHANGED <<user_prompt, generated_text, prompt, model, response, exc,
                   configured, provider, providerLog, stdout, invocations,
                   ret_to, results, marks>>

\* lines 16-17: if not api_key: raise ValueError(...)
CheckKey ==
    /\ pc = "L16"
    /\ IF ~Truthy(api_key)
          THEN /\ exc' = [kind |-> "ValueError", msg |-> KEY_NOT_SET]
               /\ pc' = "L22"
          ELSE /\ pc' = "L18"
               /\ UNCHANGED exc
    /\ UNCHANGED <<user_prompt, generated_text, prompt, api_key, model,
                   response, configured, provider, providerLog, stdout,
                   invocations, ret_to, results, marks>>

\* line 18: genai.configure(api_key=api_key)
Configure ==
    /\ pc = "L18"
    /\ providerLog' = Logged("configure", api_key)
    /\ IF Fails("configure")
          THEN /\ exc' = provider.fault
               /\ pc' = "L22"
               /\ UNCHANGED configured
          ELSE /\ configured' = api_key
               /\ pc' = "L19"
               /\ UNCHANGED exc
    /\ UNCHANGED <<user_prompt, generated_text, prompt, api_key, model,
                   response, provider, stdout, invocations, ret_to, results,
                   marks>>

\* line 19: model = genai.GenerativeModel('gemini-2.0-flash')
MakeModel ==
    /\ pc = "L19"
    /\ providerLog' = Logged("GenerativeModel", Str(MODEL_NAME))
    /\ IF Fails("GenerativeModel")
          THEN /\ exc' = provider.fault
               /\ pc' = "L22"
               /\ UNCHANGED model
          ELSE /\ model' = [tag |-> "GenerativeModel", val |-> MODEL_NAME]
               /\ pc' = "L20"
               /\ UNCHANGED exc
    /\ UNCHANGED <<user_prompt, generated_text, prompt, api_key, response,
                   configured, provider, stdout, invocations, ret_to, results,
                   marks>>

\* str.strip() on the prompts of the model.
Strip(s) == IF s = " hi " THEN "hi" ELSE s

\* response = model.generate_content(prompt.strip()): the prompt altered
\* before it is sent.
GenerateContentStripped ==
    /\ pc = "L20"
    /\ providerLog' = Logged("generate_content", Str(Strip(prompt.val)))
    /\ IF Fails("generate_content")
          THEN /\ exc' = provider.fault
               /\ pc' = "L22"
               /\ UNCHANGED response
          ELSE /\ response' = [tag |-> "response", val |-> ""]
               /\ pc' = "L21"
               /\ UNCHANGED exc
    /\ UNCHANGED <<user_prompt, generated_text, prompt, api_key, model,
                   configured, provider, stdout, invocations, ret_to, results,
                   marks>>

\* line 20: response = model.generate_content(prompt)
GenerateContent ==
    /\ pc = "L20"
    /\ providerLog' = Logged("generate_content", prompt)
    /\ IF Fails("generate_content")
          THEN /\ exc' = provider.fault
               /\ pc' = "L22"
               /\ UNCHANGED response
          ELSE /\ response' = [tag |-> "response", val |-> ""]
               /\ pc' = "L21"
               /\ UNCHANGED exc
    /\ UNCHANGED <<user_prompt, generated_text, prompt, api_key, model,
                   configured, provider, stdout, invocations, ret_to, results,
                   marks>>

\* return response.text or None: an empty payload turned into "no result".
ReadTextOrNone ==
    /\ pc = "L21"
    /\ providerLog' = Logged("text", None)
    /\ IF Fails("text")
          THEN /\ exc' = provider.fault
               /\ pc' = "L22"
               /\ UNCHANGED <<generated_text, results>>
          ELSE /\ Return(IF provider.text = "" THEN None ELSE Str(provider.text))
               /\ UNCHANGED exc
    /\ UNCHANGED <<user_prompt, prompt, api_key, model, response, configured,
                   provider, stdout, invocations, ret_to, marks>>

\* line 21: return response.text
ReadText ==
    /\ pc = "L21"
    /\ providerLog' = Logged("text", None)
    /\ IF Fails("text")
          THEN /\ exc' = provider.fault
               /\ pc' = "L22"
               /\ UNCHANGED <<generated_text, results>>
          ELSE /\ Return(Str(provider.text))
               /\ UNCHANGED exc
    /\ UNCHANGED <<user_prompt, prompt, api_key, model, response, configured,
                   provider, stdout, invocations, ret_to, marks>>

\* Has a diagnostic been printed already?
Warned == \E i \in 1..Len(stdout) : stdout[i] = Diagnostic(exc) \o "\n"

\* A handler that reports an error only the first time it is seen.
ExceptHandlerWarnOnce ==
    /\ pc = "L22"
    /\ IF IsException(exc.kind)
          THEN /\ stdout' = IF Warned THEN stdout ELSE print(stdout, Diagnostic(exc))
               /\ Return(None)
          ELSE /\ pc' = "escaped"
               /\ UNCHANGED <<stdout, generated_text, results>>
    /\ UNCHANGED <<user_prompt, prompt, api_key, model, response, exc,
                   configured, provider, providerLog, invocations, ret_to,
                   marks>>

\* How often generate_content has been called.
Sent == Cardinality({i \in 1..Len(providerLog) : providerLog[i].op = "generate_content"})

\* A handler that tries the provider once more before giving up.
ExceptHandlerRetry ==
    /\ pc = "L22"
    /\ IF IsException(exc.kind)
          THEN IF Sent = 1
                  THEN /\ pc' = "L20"
                       /\ UNCHANGED <<stdout, generated_text, results>>
                  ELSE /\ stdout' = print(stdout, Diagnostic(exc))
                       /\ Return(None)
          ELSE /\ pc' = "escaped"
               /\ UNCHANGED <<stdout, generated_text, results>>
    /\ UNCHANGED <<user_prompt, prompt, api_key, model, response, exc,
                   configured, provider, providerLog, invocations, ret_to,
                   marks>>

\* A handler that returns None without reporting the error.
ExceptHandlerSilent ==
    /\ pc = "L22"
    /\ IF IsException(exc.kind)
          THEN /\ Return(None)
               /\ UNCHANGED stdout
          ELSE /\ pc' = "escaped"
               /\ UNCHANGED <<stdout, generated_text, results>>
    /\ UNCHANGED <<user_prompt, prompt, api_key, model, response, exc,
                   configured, provider, providerLog, invocations, ret_to,
                   marks>>

\* lines 22-24: except Exception as e: print(f"An error occurred: {e}");
\* return None.  An exception the clause does not catch leaves the function.
ExceptHandler ==
    /\ pc = "L22"
    /\ IF IsException(exc.kind)
          THEN /\ stdout' = print(stdout, Diagnostic(exc))
               /\ Return(None)
          ELSE /\ pc' = "escaped"
               /\ UNCHANGED <<stdout, generated_text, results>>
    /\ UNCHANGED <<user_prompt, prompt, api_key, model, response, exc,
                   configured, provider, providerLog, invocations, ret_to,
                   marks>>

(***************************************************************************)
(* __main__, lines 26-31.                                                  *)
(***************************************************************************)
\* line 27: user_prompt = input("Enter your prompt: ")
Input ==
    /\ pc = "L27"
    /\ stdout' = Append(stdout, INPUT_PROMPT)
    /\ \E p \in Prompts : user_prompt' = Str(p)
    /\ pc' = "L28"
    /\ UNCHANGED <<generated_text, prompt, api_key, model, response, exc,
                   configured, provider, providerLog, invocations, ret_to,
                   results, marks>>

\* line 28: generated_text = generate_text(user_prompt), the call
Call ==
    /\ pc = "L28"
    /\ Enter(user_prompt)
    /\ UNCHANGED <<user_prompt, generated_text, configured, provider,
                   providerLog, stdout, ret_to, results, marks>>

\* The two prints with the `if` left out.
IfGeneratedAlways ==
    /\ pc = "L29"
    /\ pc' = "L30"
    /\ UNCHANGED <<user_prompt, generated_text, prompt, api_key, model,
                   response, exc, configured, provider, providerLog, stdout,
                   invocations, ret_to, results, marks>>

\* line 29: if generated_text:
IfGenerated ==
    /\ pc = "L29"
    /\ pc' = IF Truthy(generated_text) THEN "L30" ELSE "done"
    /\ UNCHANGED <<user_prompt, generated_text, prompt, api_key, model,
                   response, exc, configured, provider, providerLog, stdout,
                   invocations, ret_to, results, marks>>

\* line 30: print("Generated Text:")
PrintHeader ==
    /\ pc = "L30"
    /\ stdout' = print(stdout, HEADER)
    /\ pc' = "L31"
    /\ UNCHANGED <<user_prompt, generated_text, prompt, api_key, model,
                   response, exc, configured, provider, providerLog,
                   invocations, ret_to, results, marks>>

\* line 31: print(generated_text)
PrintText ==
    /\ pc = "L31"
    /\ stdout' = print(stdout, PyStr(generated_text))
    /\ pc' = "done"
    /\ UNCHANGED <<user_prompt, generated_text, prompt, api_key, model,
                   response, exc, configured, provider, providerLog,
                   invocations, ret_to, results, marks>>

(***************************************************************************)
(* One run of the script.                                                  *)
(***************************************************************************)
Init ==
    /\ pc = "L27"
    /\ user_prompt = None
    /\ generated_text = None
    /\ prompt = None
    /\ api_key = None
    /\ model = None
    /\ response = None
    /\ exc = NoExc
    /\ configured = None
    /\ provider \in Providers
    /\ providerLog = <<>>
    /\ stdout = <<>>
    /\ invocations = 0
    /\ ret_to = "main"
    /\ results = <<>>
    /\ marks = <<>>

Next ==
    \/ Input
    \/ Call
    \/ AssignKey
    \/ CheckKey
    \/ Configure
    \/ MakeModel
    \/ GenerateContent
    \/ ReadText
    \/ ExceptHandler
    \/ IfGenerated
    \/ PrintHeader
    \/ PrintText

Spec == Init /\ [][Next]_vars

(***************************************************************************)
(* generate_text called MaxCalls times in one interpreter, with the same   *)
(* prompt, against the same provider.                                      *)
(***************************************************************************)
\* One more call of generate_text(user_prompt) from the importing code.
TestCall ==
    /\ pc = "T"
    /\ invocations < MaxCalls
    /\ marks' = Append(marks, Len(stdout))
    /\ Enter(user_prompt)
    /\ UNCHANGED <<user_prompt, generated_text, configured, provider,
                   providerLog, stdout, ret_to, results>>

InitRepeat ==
    /\ pc = "T"
    /\ user_prompt \in {Str(p) : p \in Prompts}
    /\ generated_text = None
    /\ prompt = None
    /\ api_key = None
    /\ model = None
    /\ response = None
    /\ exc = NoExc
    /\ configured = None
    /\ provider \in Providers
    /\ providerLog = <<>>
    /\ stdout = <<>>
    /\ invocations = 0
    /\ ret_to = "test"
    /\ results = <<>>
    /\ marks = <<>>

NextRepeat ==
    \/ TestCall
    \/ AssignKey
    \/ CheckKey
    \/ Configure
    \/ MakeModel
    \/ GenerateContent
    \/ ReadText
    \/ ExceptHandler

SpecRepeat == InitRepeat /\ [][NextRepeat]_vars

(***************************************************************************)
(* Properties.                                                             *)
(***************************************************************************)
\* generate_text has returned to __main__.
Returned == pc \in {"L29", "L30", "L31", "done"}

\* generate_text is executing.
InCall == pc \in {"L15", "L16", "L18", "L19", "L20", "L21", "L22"}

\* Every diagnostic line generate_text can print.
DiagnosticLines ==
    { "An error occurred: " \o m \o "\n" :
          m \in {f.msg : f \in ProviderFaults} \cup {KEY_NOT_SET} }

\* The provider operations recorded so far, as a set of log positions.
CallsOf(op) == {i \in 1..Len(providerLog) : providerLog[i].op = op}

\* C1: generate_text never lets a fault escape: whichever of the provider
\* steps fails, and whatever the prompt, the call goes on to its end and
\* hands its caller the text or None; after a fault it hands back None.
GenerateTextNeverRaises ==
    /\ pc # "escaped"
    /\ InCall => ENABLED Next
    /\ Returned => generated_text.tag \in {"None", "str"}
    /\ (Returned /\ exc # NoExc) => generated_text = None

GenerateTextNeverRaisesWitness ==
    /\ pc = "done"
    /\ provider.failAt = "generate_content"
    /\ exc = [kind |-> "PermissionDenied", msg |-> "403 API key not valid"]
    /\ generated_text = None

\* C2: the prompt reaches generate_content exactly as it was received, and
\* when the provider succeeds the value returned is exactly the provider's
\* text.
PromptForwardedTextReturned ==
    /\ \A i \in CallsOf("generate_content") : providerLog[i].arg = user_prompt
    /\ (Returned /\ provider.failAt = "none") =>
           /\ generated_text = Str(provider.text)
           /\ Cardinality(CallsOf("generate_content")) = 1

PromptForwardedTextReturnedWitness ==
    /\ Returned
    /\ provider.failAt = "none"
    /\ user_prompt = Str(" hi ")
    /\ generated_text = Str("Hello!")
    /\ providerLog[3] = [op |-> "generate_content", arg |-> Str(" hi ")]

\* C4: when generate_text hands control back, it has printed a diagnostic
\* if and only if it returned None: on failure exactly one line, holding the
\* text of the error raised; on success nothing.
DiagnosticIffNone ==
    pc = "L29" =>
        IF generated_text = None
            THEN /\ exc # NoExc
                 /\ stdout = <<INPUT_PROMPT, "An error occurred: " \o exc.msg \o "\n">>
            ELSE /\ exc = NoExc
                 /\ stdout = <<INPUT_PROMPT>>

DiagnosticIffNoneWitness ==
    /\ pc = "L29"
    /\ generated_text = None
    /\ stdout[2] = "An error occurred: 503 failed to connect\n"

\* C5: a successful call whose text is empty returns the empty string, which
\* is not None, and prints no diagnostic.
EmptyTextIsSuccess ==
    (Returned /\ provider.failAt = "none" /\ provider.text = "") =>
        /\ generated_text = Str("")
        /\ generated_text # None
        /\ \A i \in 1..Len(stdout) : stdout[i] \notin DiagnosticLines

EmptyTextIsSuccessWitness ==
    /\ pc = "done"
    /\ provider.failAt = "none"
    /\ provider.text = ""
    /\ generated_text = Str("")

\* C6: in every run in which generate_text returned a text, whatever the
\* text, the run ends with the header line and then the text printed.
HeaderThenTextOnEverySuccess ==
    (pc = "done" /\ generated_text.tag = "str") =>
        /\ Len(stdout) >= 2
        /\ stdout[Len(stdout) - 1] = "Generated Text:\n"
        /\ stdout[Len(stdout)] = generated_text.val \o "\n"

\* C7: in every run in which generate_text returned None, neither the header
\* nor anything else is printed after the diagnostic: the diagnostic stays
\* the last thing on standard output.
NothingAfterDiagnosticOnFailure ==
    (Returned /\ generated_text = None) =>
        /\ pc \in {"L29", "done"}
        /\ Len(stdout) = 2
        /\ stdout[Len(stdout)] \in DiagnosticLines
        /\ \A i \in 1..Len(stdout) : stdout[i] # "Generated Text:\n"

NothingAfterDiagnosticOnFailureWitness ==
    /\ pc = "done"
    /\ generated_text = None
    /\ stdout[Len(stdout)] = "An error occurred: response has no valid part\n"

\* C8: nothing is retried: no provider operation is called twice, once a
\* fault is raised the failing call stays the last provider call, and a run
\* invokes generate_text once.
NothingRetried ==
    /\ invocations <= 1
    /\ pc = "done" => invocations = 1
    /\ \A op \in {ProviderSteps[k] : k \in 1..Len(ProviderSteps)} :
           Cardinality(CallsOf(op)) <= 1
    /\ exc # NoExc =>
           /\ providerLog # <<>>
           /\ providerLog[Len(providerLog)].op = provider.failAt

NothingRetriedWitness ==
    /\ pc = "done"
    /\ exc # NoExc
    /\ provider.failAt = "generate_content"
    /\ Cardinality(CallsOf("generate_content")) = 1

\* What call number i printed.
OutputOf(i) ==
    SubSeq(stdout, marks[i] + 1,
           IF i < Len(marks) THEN marks[i + 1] ELSE Len(stdout))

\* C9: calls of generate_text with the same prompt against the same
\* deterministic provider all return the same value and print the same
\* output, whether or not an earlier call failed.
RepeatedCallsAgree ==
    \A i, j \in 1..Len(results) :
        /\ results[i] = results[j]
        /\ OutputOf(i) = OutputOf(j)

RepeatedCallsAgreeWitness ==
    /\ Len(results) >= 2
    /\ results[1] = None
    /\ results[2] = None
    /\ OutputOf(2) = <<"An error occurred: 403 API key not valid\n">>

\* C10: the credential checked is always the non-empty literal, so the
\* missing-credential ValueError is never raised, its diagnostic is never
\* printed, and every invocation goes on to genai.configure.
KeyCheckNeverFails ==
    /\ pc \in {"L16", "L18", "L19", "L20", "L21", "L22"} =>
           api_key = Str(API_KEY_LITERAL) /\ Truthy(api_key)
    /\ exc.msg # KEY_NOT_SET
    /\ \A i \in 1..Len(stdout) :
           stdout[i] # "An error occurred: " \o KEY_NOT_SET \o "\n"
    /\ (invocations >= 1 /\ pc \notin {"L15", "L16", "L18"}) =>
           /\ providerLog # <<>>
           /\ providerLog[1] = [op |-> "configure", arg |-> Str(API_KEY_LITERAL)]

KeyCheckNeverFailsWitness ==
    /\ pc = "L19"
    /\ invocations = 1
    /\ configured = Str(API_KEY_LITERAL)

====
